---- MODULE Spec2Model ----
(***************************************************************************)
(* Model of the idea-router bots: the polling bot                          *)
(* TelegramBotWithAppsScript (telegram_bot.py) and the Flask webhook bot   *)
(* (webhook_bot.py).  One inbound message is handled at a time; every      *)
(* await of a handler is one step, and the outcome of every external call  *)
(* (Telegram, OpenAI, Google Apps Script, Bitrix24) is chosen by the       *)
(* environment.                                                            *)
(*                                                                         *)
(* Text is a sequence of characters.  A Cyrillic letter is written as its  *)
(* transliteration followed by an apostrophe or as a two-letter digraph    *)
(* ("s'" = U+0441, "ch" = U+0447), upper case in capitals ("S'", "CH"); a  *)
(* Latin letter is itself ("a", "A").  The encoding is one-to-one, so      *)
(* substring tests on the encoded text agree with Python's `in`.           *)
(***************************************************************************)
EXTENDS Integers, Sequences, FiniteSets, TLC

VARIABLES
  google_script_url,  \* GOOGLE_SCRIPT_URL / self.google_script_url
  bitrix_webhook,     \* self.bitrix_webhook
  handler,            \* the handler that owns the message being handled
  pc,                 \* the handler's position
  text,               \* message text / transcription, None when absent
  processed_text,     \* result of process_with_chatgpt
  classification,     \* locals category, priority, responsible of save_to_google_sheet
  steps,              \* the calls made for this message, in order
  sent,               \* Telegram sends and edits made for this message, in order
  errors,             \* logger.error calls made for this message, in order
  completion,         \* the completion service's answer for this message
  update,             \* kind of the update being handled
  handled,            \* number of messages taken so far
  prev,               \* summary of the previous finished message
  telegram_client,    \* webhook_bot.py: the module global telegram_client
  threads             \* webhook_bot.py: the request threads of the Flask server

vars == <<google_script_url, bitrix_webhook, handler, pc, text, processed_text,
          classification, steps, sent, errors, completion, update, handled, prev,
          telegram_client, threads>>

----------------------------------------------------------------------------
\* Character data: the literals of the sources, transliterated.

w_srochno == <<"s'", "r'", "o'", "ch", "n'", "o'">>
w_vazhno == <<"v'", "a'", "zh", "n'", "o'">>
w_kritichno == <<"k'", "r'", "i'", "t'", "i'", "ch", "n'", "o'">>
w_gorit == <<"g'", "o'", "r'", "i'", "t'">>
w_asap == <<"a", "s", "a", "p">>
w_nemedlenno == <<"n'", "e'", "m'", "e'", "d'", "l'", "e'", "n'", "n'", "o'">>
w_ideya == <<"i'", "d'", "e'", "ya">>
w_predlozhenie == <<"p'", "r'", "e'", "d'", "l'", "o'", "zh", "e'", "n'", "i'", "e'">>
w_kogda_nibud == <<"k'", "o'", "g'", "d'", "a'", "-", "n'", "i'", "b'", "u'", "d'", "ss">>
w_ne_srochno == <<"n'", "e'", " ", "s'", "r'", "o'", "ch", "n'", "o'">>
w_kod == <<"k'", "o'", "d'">>
w_bag == <<"b'", "a'", "g'">>
w_ficha == <<"f'", "i'", "ch", "a'">>
w_api == <<"a", "p", "i">>
w_baza_dannyh == <<"b'", "a'", "z'", "a'", " ", "d'", "a'", "n'", "n'", "y'", "h'">>
w_razrabotka == <<"r'", "a'", "z'", "r'", "a'", "b'", "o'", "t'", "k'", "a'">>
w_programmirovanie == <<"p'", "r'", "o'", "g'", "r'", "a'", "m'", "m'", "i'", "r'", "o'", "v'", "a'", "n'", "i'", "e'">>
w_reklama == <<"r'", "e'", "k'", "l'", "a'", "m'", "a'">>
w_seo == <<"s'", "e'", "o'">>
w_kontent == <<"k'", "o'", "n'", "t'", "e'", "n'", "t'">>
w_socseti == <<"s'", "o'", "c'", "s'", "e'", "t'", "i'">>
w_prodvizhenie == <<"p'", "r'", "o'", "d'", "v'", "i'", "zh", "e'", "n'", "i'", "e'">>
w_marketing == <<"m'", "a'", "r'", "k'", "e'", "t'", "i'", "n'", "g'">>
w_klient == <<"k'", "l'", "i'", "e'", "n'", "t'">>
w_sdelka == <<"s'", "d'", "e'", "l'", "k'", "a'">>
w_prodazhi == <<"p'", "r'", "o'", "d'", "a'", "zh", "i'">>
w_menedzher == <<"m'", "e'", "n'", "e'", "d'", "zh", "e'", "r'">>
w_crm == <<"c", "r", "m">>
w_lid == <<"l'", "i'", "d'">>
w_podderzhka == <<"p'", "o'", "d'", "d'", "e'", "r'", "zh", "k'", "a'">>
w_pomosch == <<"p'", "o'", "m'", "o'", "sc", "ss">>
w_problema == <<"p'", "r'", "o'", "b'", "l'", "e'", "m'", "a'">>
w_vopros == <<"v'", "o'", "p'", "r'", "o'", "s'">>
w_tehpodderzhka == <<"t'", "e'", "h'", "p'", "o'", "d'", "d'", "e'", "r'", "zh", "k'", "a'">>
w_obschee == <<"o'", "b'", "sc", "e'", "e'">>
w_vysokij == <<"v'", "y'", "s'", "o'", "k'", "i'", "j'">>
w_srednij == <<"s'", "r'", "e'", "d'", "n'", "i'", "j'">>
w_nizkij == <<"n'", "i'", "z'", "k'", "i'", "j'">>
txt_urgent_api == <<"s'", "r'", "o'", "ch", "n'", "o'", " ", "n'", "u'", "zh", "n'", "o'", " ", "o'", "b'", "n'", "o'", "v'", "i'", "t'", "ss", " ", "A", "P", "I">>
txt_SROCHNO == <<"S'", "R'", "O'", "CH", "N'", "O'">>
txt_Vazhno == <<"V'", "a'", "zh", "n'", "o'">>
txt_ASAP == <<"A", "S", "A", "P">>
txt_privet == <<"p'", "r'", "i'", "v'", "e'", "t'">>
txt_srochn == <<"s'", "r'", "o'", "ch", "n'">>
txt_space == <<" ">>
txt_start == <<"/", "s", "t", "a", "r", "t">>
txt_help == <<"/", "h", "e", "l", "p">>
txt_stats == <<"/", "s", "t", "a", "t", "s">>
txt_slash == <<"/">>
txt_Ideya == <<"I'", "d'", "e'", "ya">>
txt_KOD == <<"K'", "O'", "D'">>
LowerOf ==
  ("A" :> "a") @@ ("C" :> "c") @@ ("E" :> "e") @@ ("H" :> "h") @@ ("I" :> "i") @@ ("L" :> "l") @@
  ("M" :> "m") @@ ("P" :> "p") @@ ("R" :> "r") @@ ("S" :> "s") @@ ("T" :> "t") @@ ("A'" :> "a'") @@
  ("B'" :> "b'") @@ ("V'" :> "v'") @@ ("G'" :> "g'") @@ ("D'" :> "d'") @@ ("E'" :> "e'") @@ ("ZH" :> "zh") @@
  ("Z'" :> "z'") @@ ("I'" :> "i'") @@ ("J'" :> "j'") @@ ("K'" :> "k'") @@ ("L'" :> "l'") @@ ("M'" :> "m'") @@
  ("N'" :> "n'") @@ ("O'" :> "o'") @@ ("P'" :> "p'") @@ ("R'" :> "r'") @@ ("S'" :> "s'") @@ ("T'" :> "t'") @@
  ("U'" :> "u'") @@ ("F'" :> "f'") @@ ("H'" :> "h'") @@ ("C'" :> "c'") @@ ("CH" :> "ch") @@ ("SC" :> "sc") @@
  ("Y'" :> "y'") @@ ("SS" :> "ss") @@ ("YA" :> "ya")

----------------------------------------------------------------------------
\* Python string operations on character sequences.

None == <<"None">>

\* Python truthiness of an Optional[str]: None and '' are falsy.
Truthy(t) == t # None /\ t # <<>>

\* str.lower()
Lower(s) == [i \in 1..Len(s) |-> IF s[i] \in DOMAIN LowerOf THEN LowerOf[s[i]] ELSE s[i]]

\* `sub in s`
Contains(s, sub) ==
  \E i \in 0..(Len(s) - Len(sub)) : SubSeq(s, i + 1, i + Len(sub)) = sub

\* s.startswith(p)
StartsWith(s, p) == Len(s) >= Len(p) /\ SubSeq(s, 1, Len(p)) = p

Whitespace == {" ", "\n", "\t"}

RECURSIVE LStrip(_)
LStrip(s) == IF s # <<>> /\ Head(s) \in Whitespace THEN LStrip(Tail(s)) ELSE s

RECURSIVE RStrip(_)
RStrip(s) ==
  IF s # <<>> /\ s[Len(s)] \in Whitespace THEN RStrip(SubSeq(s, 1, Len(s) - 1)) ELSE s

\* str.strip()
Strip(s) == RStrip(LStrip(s))

\* s[:n]
Prefix(s, n) == SubSeq(s, 1, IF Len(s) < n THEN Len(s) ELSE n)

\* any(word in s for word in words)
AnyIn(words, s) == \E i \in 1..Len(words) : Contains(s, words[i])

----------------------------------------------------------------------------
\* Classification (telegram_bot.py).

\* The urgent list without its first word.
high_priority_without_srochno == <<w_vazhno, w_kritichno, w_gorit, w_asap, w_nemedlenno>>

high_priority == <<w_srochno, w_vazhno, w_kritichno, w_gorit, w_asap, w_nemedlenno>>

low_priority == <<w_ideya, w_predlozhenie, w_kogda_nibud, w_ne_srochno>>

\* The categories dict, in insertion order.
categories == <<
  [category |-> w_razrabotka,
   keywords |-> <<w_kod, w_bag, w_ficha, w_api, w_baza_dannyh, w_razrabotka, w_programmirovanie>>],
  [category |-> w_marketing,
   keywords |-> <<w_reklama, w_seo, w_kontent, w_socseti, w_prodvizhenie, w_marketing>>],
  [category |-> w_prodazhi,
   keywords |-> <<w_klient, w_sdelka, w_prodazhi, w_menedzher, w_crm, w_lid>>],
  [category |-> w_podderzhka,
   keywords |-> <<w_podderzhka, w_pomosch, w_problema, w_vopros, w_tehpodderzhka>>] >>

\* The loop keeps going after a match, so the last matching category wins.
RECURSIVE first_category_last_wins(_, _)
first_category_last_wins(i, text_lower) ==
  IF i > Len(categories) THEN w_obschee
  ELSE LET later == first_category_last_wins(i + 1, text_lower) IN
       IF later # w_obschee THEN later
       ELSE IF AnyIn(categories[i].keywords, text_lower) THEN categories[i].category
       ELSE w_obschee

RECURSIVE first_category(_, _)
first_category(i, text_lower) ==
  IF i > Len(categories) THEN w_obschee
  ELSE IF AnyIn(categories[i].keywords, text_lower) THEN categories[i].category
  ELSE first_category(i + 1, text_lower)

determine_category(t) == first_category(1, Lower(t))

\* The fall-through value is the low priority.
determine_priority_default_low(t) ==
  LET text_lower == Lower(t) IN
  IF AnyIn(high_priority, text_lower) THEN w_vysokij
  ELSE IF AnyIn(low_priority, text_lower) THEN w_nizkij
  ELSE w_nizkij

\* The deferred list tested before the urgent list.
determine_priority_low_first(t) ==
  LET text_lower == Lower(t) IN
  IF AnyIn(low_priority, text_lower) THEN w_nizkij
  ELSE IF AnyIn(high_priority, text_lower) THEN w_vysokij
  ELSE w_srednij

determine_priority(t) ==
  LET text_lower == Lower(t) IN
  IF AnyIn(high_priority, text_lower) THEN w_vysokij
  ELSE IF AnyIn(low_priority, text_lower) THEN w_nizkij
  ELSE w_srednij

responsible_map ==
  [c \in {w_razrabotka, w_marketing, w_prodazhi, w_podderzhka, w_obschee} |->
     CASE c = w_razrabotka -> "Ivan Petrov"
       [] c = w_marketing  -> "Anna Sidorova"
       [] c = w_prodazhi   -> "Mihail Kozlov"
       [] c = w_podderzhka -> "Elena Smirnova"
       [] c = w_obschee    -> "Administrator"]

get_responsible(category) ==
  IF category \in DOMAIN responsible_map THEN responsible_map[category] ELSE "Ne naznachen"

NoClassification == [category |-> None, priority |-> None, responsible |-> "None"]

----------------------------------------------------------------------------
\* Bounds and the inputs the environment draws from.

MaxMessages == 2

Url == <<"https://...">>

ConfigValues == {None, Url}

txt_idea_urgent == w_ideya \o txt_space \o w_srochno

\* Texts that pass filters.TEXT & ~filters.COMMAND.
TextMessages == {txt_urgent_api, txt_privet, txt_idea_urgent}

\* What voice_to_text can return.
Transcriptions == {None, <<>>, txt_privet}

\* message.text of a webhook update; None for a message without text.
WebhookTexts == {None, <<>>, txt_start, txt_help, txt_stats, txt_privet, txt_urgent_api}

NoCompletion == [kind |-> "none", content |-> None]

\* Answers of openai.ChatCompletion.create: a completion, a raised error, or
\* a response whose choices / content are missing.
CompletionResponses ==
  { [kind |-> "content", content |-> <<" ", "o", "k", "\n">>],
    [kind |-> "content", content |-> <<>>],
    [kind |-> "APIConnectionError", content |-> None],
    [kind |-> "APIError", content |-> None],
    [kind |-> "no_choices", content |-> None],
    [kind |-> "no_content", content |-> None] }

----------------------------------------------------------------------------
\* Completion gateway.

\* Only transport errors are caught.
process_with_chatgpt_narrow_except(t, resp) ==
  IF resp.kind = "content"
    THEN [raised |-> FALSE, logged |-> <<>>, value |-> Strip(resp.content)]
  ELSE IF resp.kind = "APIConnectionError"
    THEN [raised |-> FALSE, logged |-> <<"process_with_chatgpt">>,
          value |-> <<"Ne udalos' obrabotat' cherez ChatGPT. Ishodnyj tekst: ">> \o t]
  ELSE [raised |-> TRUE, logged |-> <<>>, value |-> None]

\* telegram_bot.py: every Exception is caught and the template with the
\* original text is returned.
process_with_chatgpt(t, resp) ==
  IF resp.kind = "content"
    THEN [raised |-> FALSE, logged |-> <<>>, value |-> Strip(resp.content)]
    ELSE [raised |-> FALSE, logged |-> <<"process_with_chatgpt">>,
          value |-> <<"Ne udalos' obrabotat' cherez ChatGPT. Ishodnyj tekst: ">> \o t]

\* webhook_bot.py: the template also carries str(e).
webhook_process_with_chatgpt(t, resp) ==
  IF resp.kind = "content"
    THEN [raised |-> FALSE, logged |-> <<>>, value |-> Strip(resp.content)]
    ELSE [raised |-> FALSE, logged |-> <<"process_with_chatgpt">>,
          value |-> <<"Oshibka obrabotki cherez ChatGPT: ", resp.kind,
                      "\n\nIshodnyj tekst: ">> \o t]

----------------------------------------------------------------------------
\* Reply texts.

text_result(processed) ==
  <<"Soobschenie obrabotano! Obrabotannaya mysl': ">> \o processed
    \o <<" Dannye sohraneny v Google tablicu">>

voice_result(processed) ==
  <<"Golosovoe soobschenie obrabotano! Obrabotannaya mysl': ">> \o processed
    \o <<" Dannye sohraneny v Google tablicu">>

webhook_result(processed) ==
  <<"Soobschenie obrabotano! Obrabotannaya mysl': ">> \o processed

text_error == <<"Proizoshla oshibka pri obrabotke soobscheniya.">>

voice_error == <<"Proizoshla oshibka pri obrabotke golosovogo soobscheniya.">>

voice_apology == <<"Ne udalos' raspoznat' golos. Poprobujte govorit' chetche.">>

RecognizedLimit == 100

\* f"Распознано: {text[:100]}{'...' if len(text) > 100 else ''}"
recognized_status(t) ==
  <<"Raspoznano: ">> \o Prefix(t, RecognizedLimit)
    \o (IF Len(t) > RecognizedLimit THEN <<".", ".", ".">> ELSE <<>>)

----------------------------------------------------------------------------
\* State.

config == <<google_script_url, bitrix_webhook>>

webhook_state == <<telegram_client, threads>>

\* The request threads of the Flask server (app.run serves each request on
\* a thread of its own).
Threads == {"t1", "t2"}

\* `telegram_client = None`
NoClient == "none"

\* A thread that has not been given a request.
IdleThread ==
  [pc |-> "idle", body |-> "none", text |-> None, call |-> "none", client |-> NoClient,
   access |-> {}, failed |-> {}, sent |-> <<>>, status |-> "none"]

NoPrev == [handler |-> "none"]

Init ==
  /\ google_script_url \in ConfigValues
  /\ bitrix_webhook \in ConfigValues
  /\ handler = "idle"
  /\ pc = "idle"
  /\ text = None
  /\ processed_text = None
  /\ classification = NoClassification
  /\ steps = <<>>
  /\ sent = <<>>
  /\ errors = <<>>
  /\ completion = NoCompletion
  /\ update = "none"
  /\ handled = 0
  /\ prev = NoPrev
  /\ telegram_client = NoClient
  /\ threads = [t \in Threads |-> IdleThread]

\* A handler is entered with fresh locals.
Receive(h, u, t, start, logged) ==
  /\ pc \in {"idle", "done"}
  /\ handled < MaxMessages
  /\ handler' = h
  /\ update' = u
  /\ text' = t
  /\ pc' = start
  /\ processed_text' = None
  /\ classification' = NoClassification
  /\ steps' = <<>>
  /\ sent' = <<>>
  /\ errors' = logged
  /\ completion' = NoCompletion
  /\ handled' = handled + 1
  /\ UNCHANGED config

\* One Telegram send or edit made by a polling-bot handler: the library
\* raises on failure.
TelegramCall(h, from, kind, body, to, onfail) ==
  /\ handler = h
  /\ pc = from
  /\ \E ok \in BOOLEAN :
       /\ sent' = Append(sent, [kind |-> kind, body |-> body, ok |-> ok])
       /\ pc' = IF ok THEN to ELSE onfail
  /\ steps' = Append(steps, "tg_" \o kind)
  /\ UNCHANGED <<config, handler, text, processed_text, classification,
                 errors, completion, update, handled, prev, webhook_state>>

----------------------------------------------------------------------------
\* telegram_bot.py: handle_text.

receive_text ==
  /\ \E t \in TextMessages : Receive("handle_text", "text", t, "t_ack", <<>>)
  /\ UNCHANGED <<prev, webhook_state>>

handle_text_ack ==
  TelegramCall("handle_text", "t_ack", "ack",
               <<"Obrabatyvayu vashe soobschenie...">>, "t_status_chatgpt", "t_except")

handle_text_status_chatgpt ==
  TelegramCall("handle_text", "t_status_chatgpt", "status",
               <<"Obrabatyvayu cherez ChatGPT...">>, "t_chatgpt", "t_except")

\* await self.process_with_chatgpt(text), shared by handle_text and handle_voice.
PollingChatGPT(h, from, to, onraise) ==
  /\ handler = h
  /\ pc = from
  /\ \E resp \in CompletionResponses :
       LET r == process_with_chatgpt(text, resp) IN
       /\ completion' = resp
       /\ steps' = steps \o <<"openai">>
                     \o (IF r.raised THEN <<"process_with_chatgpt_raised">> ELSE <<>>)
       /\ errors' = errors \o r.logged
       /\ processed_text' = r.value
       /\ pc' = IF r.raised THEN onraise ELSE to
  /\ UNCHANGED <<config, handler, text, classification, sent, update, handled, prev, webhook_state>>

handle_text_chatgpt == PollingChatGPT("handle_text", "t_chatgpt", "t_status_save", "t_except")

handle_text_status_save ==
  TelegramCall("handle_text", "t_status_save", "status",
               <<"Sohranyayu v tablicu...">>, "save_call", "t_except")

handle_text_result ==
  TelegramCall("handle_text", "t_result", "result",
               text_result(processed_text), "done", "t_except")

\* The except branch of a polling handler: log, then reply with the fixed
\* error text; a failure of that reply leaves the handler as an exception.
ExceptBranch(h, from, body) ==
  /\ handler = h
  /\ pc = from
  /\ errors' = Append(errors, h)
  /\ \E ok \in BOOLEAN :
       /\ sent' = Append(sent, [kind |-> "error", body |-> body, ok |-> ok])
       /\ steps' = steps \o <<"tg_error">> \o (IF ok THEN <<>> ELSE <<"handler_raised">>)
  /\ pc' = "done"
  /\ UNCHANGED <<config, handler, text, processed_text, classification,
                 completion, update, handled, prev, webhook_state>>

handle_text_except == ExceptBranch("handle_text", "t_except", text_error)

----------------------------------------------------------------------------
\* telegram_bot.py: handle_voice.

\* Voice updates carry no text; the text is what voice_to_text returns.
receive_voice ==
  /\ Receive("handle_voice", "voice", None, "v_ack", <<>>)
  /\ UNCHANGED <<prev, webhook_state>>

handle_voice_ack ==
  TelegramCall("handle_voice", "v_ack", "ack",
               <<"Obrabatyvayu golosovoe soobschenie...">>, "v_download", "v_except")

\* context.bot.get_file and voice_file.download_to_memory.
handle_voice_download ==
  /\ handler = "handle_voice"
  /\ pc = "v_download"
  /\ \E ok \in BOOLEAN :
       /\ steps' = Append(steps, IF ok THEN "download" ELSE "download_failed")
       /\ pc' = IF ok THEN "v_status_recognize" ELSE "v_except"
  /\ UNCHANGED <<config, handler, text, processed_text, classification, sent,
                 errors, completion, update, handled, prev, webhook_state>>

handle_voice_status_recognize ==
  TelegramCall("handle_voice", "v_status_recognize", "status",
               <<"Raspoznayu rech'...">>, "v_voice_to_text", "v_except")

\* text = await self.voice_to_text(voice_bytes); voice_to_text returns None
\* on every exception.
handle_voice_voice_to_text ==
  /\ handler = "handle_voice"
  /\ pc = "v_voice_to_text"
  /\ \E t \in Transcriptions :
       /\ text' = t
       /\ pc' = IF Truthy(t) THEN "v_status_recognized" ELSE "v_apology"
  /\ steps' = Append(steps, "voice_to_text")
  /\ UNCHANGED <<config, handler, processed_text, classification, sent, errors,
                 completion, update, handled, prev, webhook_state>>

handle_voice_status_recognized ==
  TelegramCall("handle_voice", "v_status_recognized", "status",
               recognized_status(text), "v_status_chatgpt", "v_except")

handle_voice_status_chatgpt ==
  TelegramCall("handle_voice", "v_status_chatgpt", "status",
               <<"Obrabatyvayu cherez ChatGPT...">>, "v_chatgpt", "v_except")

handle_voice_chatgpt == PollingChatGPT("handle_voice", "v_chatgpt", "v_status_save", "v_except")

handle_voice_status_save ==
  TelegramCall("handle_voice", "v_status_save", "status",
               <<"Sohranyayu v tablicu...">>, "save_call", "v_except")

handle_voice_result ==
  TelegramCall("handle_voice", "v_result", "result",
               voice_result(processed_text), "done", "v_except")

handle_voice_apology ==
  TelegramCall("handle_voice", "v_apology", "apology", voice_apology, "done", "v_except")

handle_voice_except == ExceptBranch("handle_voice", "v_except", voice_error)

----------------------------------------------------------------------------
\* telegram_bot.py: save_to_google_sheet and create_bitrix_task, awaited by
\* handle_text and handle_voice.

\* Where save_to_google_sheet returns to.
AfterSave == IF handler = "handle_text" THEN "t_result" ELSE "v_result"

\* Answers of requests.post that arrive.
PostAnswers == {"200", "500", "exception"}

\* The POST is issued first and the message classified afterwards.
save_to_google_sheet_call_post_first ==
  /\ handler \in {"handle_text", "handle_voice"}
  /\ pc = "save_call"
  /\ classification' =
       [category |-> determine_category(text),
        priority |-> determine_priority(text),
        responsible |-> get_responsible(determine_category(text))]
  /\ IF Truthy(google_script_url)
       THEN /\ steps' = steps \o <<"sheet_post", "sheet_http", "classify">>
            /\ pc' = "save_wait"
            /\ UNCHANGED errors
       ELSE /\ steps' = steps \o <<"sheet_post", "classify">>
            /\ errors' = Append(errors, "save_to_google_sheet")
            /\ pc' = AfterSave
  /\ UNCHANGED <<config, handler, text, processed_text, sent, completion, update,
                 handled, prev, webhook_state>>

\* Classification, then requests.post(self.google_script_url, ...).  There
\* is no test of the URL: with the URL unset requests raises MissingSchema
\* before anything is put on the wire, and the except clause logs it.
save_to_google_sheet_call ==
  /\ handler \in {"handle_text", "handle_voice"}
  /\ pc = "save_call"
  /\ classification' =
       [category |-> determine_category(text),
        priority |-> determine_priority(text),
        responsible |-> get_responsible(determine_category(text))]
  /\ IF Truthy(google_script_url)
       THEN /\ steps' = steps \o <<"classify", "sheet_post", "sheet_http">>
            /\ pc' = "save_wait"
            /\ UNCHANGED errors
       ELSE /\ steps' = steps \o <<"classify", "sheet_post">>
            /\ errors' = Append(errors, "save_to_google_sheet")
            /\ pc' = AfterSave
  /\ UNCHANGED <<config, handler, text, processed_text, sent, completion, update, handled, prev, webhook_state>>

\* The Bitrix24 call is made although the spreadsheet call did not answer 200.
save_to_google_sheet_response_always_bitrix ==
  /\ handler \in {"handle_text", "handle_voice"}
  /\ pc = "save_wait"
  /\ \E r \in PostAnswers :
       /\ errors' = IF r = "200" THEN errors ELSE Append(errors, "save_to_google_sheet")
       /\ IF Truthy(bitrix_webhook)
            THEN /\ steps' = steps \o <<"sheet_" \o r, "bitrix_post", "bitrix_http">>
                 /\ pc' = "bitrix_wait"
            ELSE /\ steps' = Append(steps, "sheet_" \o r)
                 /\ pc' = AfterSave
  /\ UNCHANGED <<config, handler, text, processed_text, classification, sent,
                 completion, update, handled, prev, webhook_state>>

\* An exception of requests.post is not caught and reaches the handler.
save_to_google_sheet_response_propagates ==
  /\ handler \in {"handle_text", "handle_voice"}
  /\ pc = "save_wait"
  /\ \E r \in PostAnswers :
       /\ errors' = IF r = "500" THEN Append(errors, "save_to_google_sheet") ELSE errors
       /\ IF r = "200" /\ Truthy(bitrix_webhook)
            THEN /\ steps' = steps \o <<"sheet_" \o r, "bitrix_post", "bitrix_http">>
                 /\ pc' = "bitrix_wait"
            ELSE /\ steps' = Append(steps, "sheet_" \o r)
                 /\ pc' = IF r = "exception"
                            THEN (IF handler = "handle_text" THEN "t_except" ELSE "v_except")
                            ELSE AfterSave
  /\ UNCHANGED <<config, handler, text, processed_text, classification, sent,
                 completion, update, handled, prev, webhook_state>>

\* The answer of the spreadsheet POST: 200 continues with create_bitrix_task
\* when self.bitrix_webhook is set; anything else is logged.
save_to_google_sheet_response ==
  /\ handler \in {"handle_text", "handle_voice"}
  /\ pc = "save_wait"
  /\ \E r \in PostAnswers :
       /\ errors' = IF r = "200" THEN errors ELSE Append(errors, "save_to_google_sheet")
       /\ IF r = "200" /\ Truthy(bitrix_webhook)
            THEN /\ steps' = steps \o <<"sheet_" \o r, "bitrix_post", "bitrix_http">>
                 /\ pc' = "bitrix_wait"
            ELSE /\ steps' = Append(steps, "sheet_" \o r)
                 /\ pc' = AfterSave
  /\ UNCHANGED <<config, handler, text, processed_text, classification, sent,
                 completion, update, handled, prev, webhook_state>>

\* requests.post is called without a timeout: an endpoint that never
\* answers blocks the call, and the handler, for good.
save_to_google_sheet_no_answer ==
  /\ handler \in {"handle_text", "handle_voice"}
  /\ pc = "save_wait"
  /\ steps' = Append(steps, "sheet_no_answer")
  /\ pc' = "blocked"
  /\ UNCHANGED <<config, handler, text, processed_text, classification, sent,
                 errors, completion, update, handled, prev, webhook_state>>

create_bitrix_task_response ==
  /\ handler \in {"handle_text", "handle_voice"}
  /\ pc = "bitrix_wait"
  /\ \E r \in PostAnswers :
       /\ steps' = Append(steps, "bitrix_" \o r)
       /\ errors' = IF r = "200" THEN errors ELSE Append(errors, "create_bitrix_task")
  /\ pc' = AfterSave
  /\ UNCHANGED <<config, handler, text, processed_text, classification, sent,
                 completion, update, handled, prev, webhook_state>>

create_bitrix_task_no_answer ==
  /\ handler \in {"handle_text", "handle_voice"}
  /\ pc = "bitrix_wait"
  /\ steps' = Append(steps, "bitrix_no_answer")
  /\ pc' = "blocked"
  /\ UNCHANGED <<config, handler, text, processed_text, classification, sent,
                 errors, completion, update, handled, prev, webhook_state>>

----------------------------------------------------------------------------
\* webhook_bot.py: handle_message, run by webhook() for every JSON body.

\* Updates the endpoint can be handed: a body Update.de_json fails on, an
\* update without a message, a message with or without text.
WebhookUpdates ==
  {[kind |-> "malformed", text |-> None], [kind |-> "no_message", text |-> None]}
    \cup {[kind |-> "message", text |-> t] : t \in WebhookTexts}

\* The code of handle_message up to its first await.
handle_message_route(u) ==
  IF u.kind # "message" THEN "done"
  ELSE IF u.text = txt_start THEN "w_start"
  ELSE IF u.text = txt_help THEN "w_help"
  ELSE IF Truthy(u.text) /\ ~StartsWith(u.text, txt_slash) THEN "w_ack"
  ELSE "done"

\* Update.de_json raising is caught by handle_message's except clause.
handle_message_logged(u) == IF u.kind = "malformed" THEN <<"handle_message">> ELSE <<>>

receive_webhook ==
  /\ \E u \in WebhookUpdates :
       Receive("handle_message", u.kind, u.text, handle_message_route(u),
               handle_message_logged(u))
  /\ UNCHANGED <<prev, webhook_state>>

\* send_telegram_message / edit_telegram_message: a non-200 answer, an
\* exception and the client's 30 s timeout are logged and absorbed.
WebhookTelegramCall(from, kind, body, to, onfail, logged) ==
  /\ handler = "handle_message"
  /\ pc = from
  /\ \E ok \in BOOLEAN :
       /\ sent' = Append(sent, [kind |-> kind, body |-> body, ok |-> ok])
       /\ pc' = IF ok THEN to ELSE onfail
       /\ errors' = IF ok THEN errors ELSE errors \o logged
  /\ steps' = Append(steps, "tg_" \o kind)
  /\ UNCHANGED <<config, handler, text, processed_text, classification,
                 completion, update, handled, prev, webhook_state>>

handle_message_start ==
  WebhookTelegramCall("w_start", "welcome", <<"Fedya, privet!">>, "done", "done",
                      <<"send_telegram_message">>)

handle_message_help ==
  WebhookTelegramCall("w_help", "help", <<"Kak ispol'zovat' bota">>, "done", "done",
                      <<"send_telegram_message">>)

\* The acknowledgment; without its message id the handler logs and returns.
handle_message_ack ==
  WebhookTelegramCall("w_ack", "ack", <<"Obrabatyvayu cherez ChatGPT...">>,
                      "w_chatgpt", "done", <<"send_telegram_message", "handle_message">>)

handle_message_chatgpt ==
  /\ handler = "handle_message"
  /\ pc = "w_chatgpt"
  /\ \E resp \in CompletionResponses :
       LET r == webhook_process_with_chatgpt(text, resp) IN
       /\ completion' = resp
       /\ steps' = steps \o <<"openai">>
                     \o (IF r.raised THEN <<"process_with_chatgpt_raised">> ELSE <<>>)
       /\ errors' = errors \o (IF r.raised THEN <<"handle_message">> ELSE r.logged)
       /\ processed_text' = r.value
       /\ pc' = IF r.raised THEN "done" ELSE "w_save_call"
  /\ UNCHANGED <<config, handler, text, classification, sent, update, handled, prev, webhook_state>>

\* `if GOOGLE_SCRIPT_URL:` in handle_message, then save_to_google_sheet,
\* which tests the URL again before requests.post(..., timeout=10).
webhook_save_to_google_sheet_call ==
  /\ handler = "handle_message"
  /\ pc = "w_save_call"
  /\ IF Truthy(google_script_url)
       THEN /\ steps' = steps \o <<"sheet_post", "sheet_http">>
            /\ pc' = "w_save_wait"
       ELSE /\ pc' = "w_result"
            /\ UNCHANGED steps
  /\ UNCHANGED <<config, handler, text, processed_text, classification, sent,
                 errors, completion, update, handled, prev, webhook_state>>

\* The answer of the POST; an endpoint that does not answer within the
\* timeout makes requests raise, which is logged like any other exception.
webhook_save_to_google_sheet_response ==
  /\ handler = "handle_message"
  /\ pc = "w_save_wait"
  /\ \E r \in PostAnswers \cup {"timeout"} :
       /\ steps' = Append(steps, "sheet_" \o r)
       /\ errors' = IF r = "200" THEN errors ELSE Append(errors, "save_to_google_sheet")
  /\ pc' = "w_result"
  /\ UNCHANGED <<config, handler, text, processed_text, classification, sent,
                 completion, update, handled, prev, webhook_state>>

handle_message_result ==
  WebhookTelegramCall("w_result", "result", webhook_result(processed_text), "done", "done",
                      <<"edit_telegram_message">>)

----------------------------------------------------------------------------
\* Specifications.

Handlers ==
  \/ handle_text_ack
  \/ handle_text_status_chatgpt
  \/ handle_text_chatgpt
  \/ handle_text_status_save
  \/ handle_text_result
  \/ handle_text_except
  \/ handle_voice_ack
  \/ handle_voice_download
  \/ handle_voice_status_recognize
  \/ handle_voice_voice_to_text
  \/ handle_voice_status_recognized
  \/ handle_voice_status_chatgpt
  \/ handle_voice_chatgpt
  \/ handle_voice_status_save
  \/ handle_voice_result
  \/ handle_voice_apology
  \/ handle_voice_except
  \/ save_to_google_sheet_call
  \/ save_to_google_sheet_response
  \/ save_to_google_sheet_no_answer
  \/ create_bitrix_task_response
  \/ create_bitrix_task_no_answer
  \/ handle_message_start
  \/ handle_message_help
  \/ handle_message_ack
  \/ handle_message_chatgpt
  \/ webhook_save_to_google_sheet_call
  \/ webhook_save_to_google_sheet_response
  \/ handle_message_result

Next ==
  \/ receive_text
  \/ receive_voice
  \/ receive_webhook
  \/ Handlers

Spec == Init /\ [][Next]_vars

\* The event loop runs every handler step that can be taken.
FairSpec == Init /\ [][Next]_vars /\ WF_vars(Next)

----------------------------------------------------------------------------
\* Two runs on the same message: after a message is finished the same
\* update is delivered again, and the finished run is remembered in prev.

FinalKinds == {"result", "apology", "error", "welcome", "help"}

IsFinal(m) == m.kind \in FinalKinds

\* The final replies sent for the message, in order.
Finals == SelectSeq(sent, IsFinal)

FinalBodies == [i \in DOMAIN Finals |-> Finals[i].body]

\* The outcomes of the Telegram calls made for the message, in order.
Oks == [i \in DOMAIN sent |-> sent[i].ok]

IsSinkStep(x) ==
  x \in {"sheet_post", "sheet_http", "sheet_200", "sheet_500", "sheet_exception",
         "sheet_timeout", "sheet_no_answer", "bitrix_post", "bitrix_http",
         "bitrix_200", "bitrix_500", "bitrix_exception", "bitrix_no_answer"}

SinkSteps == SelectSeq(steps, IsSinkStep)

DownloadFailed == \E i \in DOMAIN steps : steps[i] = "download_failed"

Summary ==
  [handler |-> handler, update |-> update, text |-> text, completion |-> completion,
   oks |-> Oks, download_failed |-> DownloadFailed, sinks |-> SinkSteps,
   finals |-> FinalBodies]

receive_first ==
  /\ pc = "idle"
  /\ (receive_text \/ receive_voice \/ receive_webhook)

receive_again ==
  /\ pc = "done"
  /\ prev' = Summary
  /\ UNCHANGED webhook_state
  /\ CASE handler = "handle_text" -> Receive("handle_text", "text", text, "t_ack", <<>>)
       [] handler = "handle_voice" -> Receive("handle_voice", "voice", None, "v_ack", <<>>)
       [] handler = "handle_message" ->
            LET u == [kind |-> update, text |-> text] IN
            Receive("handle_message", u.kind, u.text, handle_message_route(u),
                    handle_message_logged(u))

NextPair ==
  \/ receive_first
  \/ receive_again
  \/ Handlers

SpecPair == Init /\ [][NextPair]_vars

----------------------------------------------------------------------------
\* Vocabulary of the properties.

Has(x) == \E i \in DOMAIN steps : steps[i] = x

Count(x) == Cardinality({i \in DOMAIN steps : steps[i] = x})

\* Position of the first x in steps, 0 when absent.
Index(x) == IF Has(x) THEN CHOOSE i \in DOMAIN steps : steps[i] = x /\ \A j \in 1..(i - 1) : steps[j] # x
            ELSE 0

Polling == handler \in {"handle_text", "handle_voice"}

Logged(x) == \E i \in DOMAIN errors : errors[i] = x

----------------------------------------------------------------------------
\* C1: in save_to_google_sheet of the polling bot create_bitrix_task is
\* called exactly when the spreadsheet POST answered 200 and a Bitrix24
\* webhook URL is configured; a spreadsheet call that answers non-200 or
\* raises leaves the Bitrix24 call count for that message at zero.
C1_BitrixIffSheetOk ==
  Polling =>
    /\ Count("bitrix_post") = (IF Has("sheet_200") /\ Truthy(bitrix_webhook) THEN 1 ELSE 0)
    /\ (Has("sheet_500") \/ Has("sheet_exception") \/ Has("sheet_no_answer")
          => Count("bitrix_post") = 0)

C1_Witness ==
  /\ handler = "handle_text"
  /\ pc = "done"
  /\ Has("sheet_200")
  /\ Has("bitrix_200")

\* C2: with the spreadsheet URL not configured no call to either sink is
\* attempted and nothing is logged as an error for the sink, in the polling
\* bot and in the webhook bot.
C2_UnconfiguredSkipsSilently ==
  ~Truthy(google_script_url) =>
    /\ ~Has("sheet_post")
    /\ ~Has("bitrix_post")
    /\ ~Logged("save_to_google_sheet")

\* C3: process_with_chatgpt never raises: whatever the completion service
\* answers, the handler goes on with a string, and when the service failed
\* that string contains the original text.
C3_SummarizeNeverRaises ==
  Has("openai") =>
    /\ ~Has("process_with_chatgpt_raised")
    /\ processed_text # None
    /\ (completion.kind # "content" => Contains(processed_text, text))

C3_Witness ==
  /\ Has("openai")
  /\ completion.kind = "no_choices"
  /\ text = txt_urgent_api
  /\ handler = "handle_text"

\* An update that carries a message.
IsMessage == update \in {"text", "voice", "message"}

\* C4: every message handed to handle_text, handle_voice or handle_message
\* gets exactly one final reply, whatever the outcomes of the
\* acknowledgment, the completion call, the sink calls and the reply
\* delivery (acknowledgment and status edits not counted).
C4_ExactlyOneFinalReply ==
  pc = "done" /\ IsMessage => Len(Finals) = 1

\* C5: the handling of a message always eventually reaches a terminal
\* state; no external call that never answers keeps it from terminating.
C5_AlwaysTerminates == (pc \notin {"idle", "done"}) ~> (pc = "done")

\* The message has no usable text: a webhook message without text, or a
\* voice note whose transcription is empty.
NoUsableText ==
  \/ update = "message" /\ ~Truthy(text)
  \/ update = "voice" /\ Has("voice_to_text") /\ ~Truthy(text)

\* C6: a message without usable text is aborted with zero calls to the
\* completion service and to the sinks and with exactly one fixed apology
\* reply.
C6_AbortedWithOneApology ==
  pc = "done" /\ NoUsableText =>
    /\ ~Has("openai")
    /\ ~Has("sheet_post")
    /\ ~Has("bitrix_post")
    /\ Len(Finals) = 1
    /\ Finals[1].kind = "apology"

\* a occurs in steps, and first occurs before the first b.
Before(a, b) == Has(a) /\ Index(a) < Index(b)

\* Every step after position i belongs to the except branch.
NothingAfter(i) == \A j \in (i + 1)..Len(steps) : steps[j] \in {"tg_error", "handler_raised"}

\* C7 as stated: classification precedes the completion call, which
\* precedes every sink call, and the final reply comes last.
C7_ClassifyBeforeSummarize ==
  /\ Has("openai") => Before("classify", "openai")
  /\ Has("sheet_post") => Before("openai", "sheet_post")
  /\ Has("tg_result") => Has("openai") /\ NothingAfter(Index("tg_result"))

\* C7 as amended: in the polling bot the completion call comes first, the
\* classification is made inside save_to_google_sheet right before the
\* spreadsheet POST, the Bitrix24 POST follows the spreadsheet POST, and the
\* success reply is sent after all of them and is followed by nothing but
\* the except branch; the webhook bot never classifies, and its completion
\* call precedes its spreadsheet POST and its success reply.
C7_SummarizeClassifyDispatchReply ==
  /\ Count("openai") <= 1 /\ Count("classify") <= 1 /\ Count("sheet_post") <= 1
  /\ Polling =>
       /\ Has("classify") => Before("openai", "classify")
       /\ Has("sheet_post") => Index("sheet_post") = Index("classify") + 1
       /\ Has("bitrix_post") => Before("sheet_post", "bitrix_post")
       /\ Has("tg_result") =>
            /\ Before("openai", "tg_result")
            /\ Before("classify", "tg_result")
            /\ Before("sheet_post", "tg_result")
            /\ NothingAfter(Index("tg_result"))
  /\ handler = "handle_message" =>
       /\ ~Has("classify")
       /\ Has("sheet_post") => Before("openai", "sheet_post")
       /\ Has("tg_result") =>
            /\ Before("openai", "tg_result")
            /\ Index("tg_result") = Len(steps)

C7_Witness ==
  /\ handler = "handle_text"
  /\ pc = "done"
  /\ Has("tg_result")
  /\ Has("bitrix_200")
  /\ classification.priority = w_vysokij

ResultBody(processed) ==
  CASE handler = "handle_text" -> text_result(processed)
    [] handler = "handle_voice" -> voice_result(processed)
    [] OTHER -> webhook_result(processed)

SameTelegramOutcomes ==
  \A i \in DOMAIN Oks \cap DOMAIN prev.oks : Oks[i] = prev.oks[i]

\* This run has come to rest, finished or blocked in a sink call, and the
\* previous run got the same message, the same completion answer and the
\* same Telegram outcomes.
SameButSinks ==
  /\ pc \in {"done", "blocked"}
  /\ prev.handler = handler
  /\ prev.update = update
  /\ prev.text = text
  /\ prev.completion = completion
  /\ prev.download_failed = DownloadFailed
  /\ SameTelegramOutcomes

\* C9: two runs on the same text with the same completion result that
\* differ only in the outcomes of the spreadsheet and Bitrix24 calls
\* (success, non-200, exception, no answer in time) send the same final
\* reply texts.
C9_SinkOutcomeDoesNotChangeReply ==
  SameButSinks => prev.finals = FinalBodies

\* What does hold: between two finished runs the sink outcomes make no
\* difference to the final replies.
SinkAnswerDoesNotChangeReply ==
  SameButSinks /\ pc = "done" => prev.finals = FinalBodies

----------------------------------------------------------------------------
\* The classifier on its own: determine_category, determine_priority and
\* get_responsible applied to texts put together from fragments.

MaxFragments == 2

Fragments ==
  <<w_srochno, txt_SROCHNO, txt_Vazhno, w_kritichno, w_gorit, w_asap, txt_ASAP,
    w_nemedlenno, w_ideya, txt_Ideya, w_predlozhenie, w_kogda_nibud, w_ne_srochno,
    txt_srochn, <<"o'">>, txt_space, txt_privet, w_kod, txt_KOD, w_reklama,
    w_klient, w_vopros>>

RECURSIVE TextsOf(_)
TextsOf(n) ==
  IF n = 0 THEN {<<>>}
  ELSE LET shorter == TextsOf(n - 1) IN
       shorter \cup {t \o Fragments[i] : t \in shorter, i \in DOMAIN Fragments}

ClassifierTexts == TextsOf(MaxFragments)

InitClassify ==
  /\ google_script_url = None
  /\ bitrix_webhook = None
  /\ handler = "classifier"
  /\ pc = "classify"
  /\ text \in ClassifierTexts
  /\ processed_text = None
  /\ classification = NoClassification
  /\ steps = <<>>
  /\ sent = <<>>
  /\ errors = <<>>
  /\ completion = NoCompletion
  /\ update = "none"
  /\ handled = 0
  /\ prev = NoPrev
  /\ telegram_client = NoClient
  /\ threads = [t \in Threads |-> IdleThread]

classify ==
  /\ pc = "classify"
  /\ classification' =
       [category |-> determine_category(text),
        priority |-> determine_priority(text),
        responsible |-> get_responsible(determine_category(text))]
  /\ pc' = "classified"
  /\ UNCHANGED <<config, handler, text, processed_text, steps, sent, errors,
                 completion, update, handled, prev, webhook_state>>

NextClassify == classify

SpecClassify == InitClassify /\ [][NextClassify]_vars

\* Some stretch of the text is, letter case aside, one of the words.
Occurs(words, t) ==
  \E i \in 1..Len(t) : \E j \in i..Len(t) :
    \E k \in DOMAIN words : Lower(SubSeq(t, i, j)) = words[k]

\* C10: a text in which an urgent keyword occurs, in any letter case and
\* next to anything else, deferred keywords included, gets the priority
\* 'vysokij' (high).
C10_UrgentIsHigh ==
  pc = "classified" /\ Occurs(high_priority, text) => classification.priority = w_vysokij

C10_Witness ==
  /\ pc = "classified"
  /\ text = w_ideya \o txt_SROCHNO
  /\ classification.priority = w_vysokij

\* A keyword of the k-th declared category occurs in the text.
Matches(k, t) == Occurs(categories[k].keywords, t)

\* C11: determine_category returns the first category, in the declared order
\* razrabotka, marketing, prodazhi, podderzhka, of which a keyword occurs in
\* the lower-cased text: with keywords of one category that category, with
\* keywords of two the one declared earlier.
C11_FirstDeclaredCategoryWins ==
  /\ [k \in DOMAIN categories |-> categories[k].category]
       = <<w_razrabotka, w_marketing, w_prodazhi, w_podderzhka>>
  /\ pc = "classified" =>
       \A k \in DOMAIN categories :
         Matches(k, text) /\ (\A j \in 1..(k - 1) : ~Matches(j, text))
           => classification.category = categories[k].category

C11_Witness ==
  /\ pc = "classified"
  /\ text = w_reklama \o txt_KOD
  /\ classification.category = w_razrabotka

\* C12: a text in which no keyword of a category list, of the urgent list
\* or of the deferred list occurs gets the category 'obschee' (general) and
\* the priority 'srednij' (medium), and every text gets a category and a
\* priority.
C12_NoKeywordIsGeneralMedium ==
  pc = "classified" =>
    /\ classification.category
         \in {w_razrabotka, w_marketing, w_prodazhi, w_podderzhka, w_obschee}
    /\ classification.priority \in {w_vysokij, w_srednij, w_nizkij}
    /\ ( /\ \A k \in DOMAIN categories : ~Matches(k, text)
         /\ ~Occurs(high_priority, text)
         /\ ~Occurs(low_priority, text) )
       => /\ classification.category = w_obschee
          /\ classification.priority = w_srednij

C12_Witness ==
  /\ pc = "classified"
  /\ text = txt_privet \o txt_srochn
  /\ classification.category = w_obschee
  /\ classification.priority = w_srednij

\* C15: a text with 'ne srochno' contains 'srochno' and gets the high
\* priority, so the deferred keyword 'ne srochno' never decides; the low
\* priority is returned only for a text with 'ideya', 'predlozhenie' or
\* 'kogda-nibud'' and without an urgent keyword.
C15_NeSrochnoIsHigh ==
  pc = "classified" =>
    /\ Occurs(<<w_ne_srochno>>, text) => classification.priority = w_vysokij
    /\ classification.priority = w_nizkij =>
         /\ Occurs(<<w_ideya, w_predlozhenie, w_kogda_nibud>>, text)
         /\ ~Occurs(high_priority, text)

C15_Witness ==
  /\ pc = "classified"
  /\ text = w_ne_srochno
  /\ classification.priority = w_vysokij

----------------------------------------------------------------------------
\* webhook_bot.py under the Flask server: every POST runs webhook() on a
\* thread of its own, with an event loop of its own, and all of them go
\* through get_telegram_client and its module global.

\* Request bodies: one request.get_json() raises on, a JSON value that is
\* falsy, and the updates of WebhookUpdates.
Bodies ==
  {[kind |-> "not_json", text |-> None], [kind |-> "empty", text |-> None]}
    \cup WebhookUpdates

\* The single-message state stays as Init leaves it.
single == <<handler, pc, text, processed_text, classification, steps, sent, errors,
            completion, update, handled, prev>>

\* The Telegram call a route of handle_message starts with.
FirstCall(route) ==
  CASE route = "w_start" -> "welcome"
    [] route = "w_help" -> "help"
    [] route = "w_ack" -> "ack"
    [] OTHER -> "none"

\* webhook() returns: the loop is closed and 200 is answered.
Answered(th) == [th EXCEPT !.pc = "done", !.status = "200"]

\* The exception of Update.de_json leaves handle_message, and webhook()
\* answers 500 from its except clause.
webhook_uncaught(t) ==
  /\ threads[t].pc = "idle"
  /\ \E b \in Bodies :
       LET th == [threads[t] EXCEPT !.body = b.kind, !.text = b.text] IN
       threads' = [threads EXCEPT ![t] =
         IF b.kind \in {"not_json", "malformed"}
           THEN [th EXCEPT !.pc = "done", !.status = "500"]
         ELSE IF b.kind = "empty" \/ handle_message_route(b) = "done"
           THEN Answered(th)
         ELSE [th EXCEPT !.pc = "gc_check", !.call = FirstCall(handle_message_route(b))]]
  /\ UNCHANGED <<config, single, telegram_client>>

\* webhook() up to the first Telegram call of handle_message: get_json,
\* the new event loop, Update.de_json and the routing on the text.
webhook(t) ==
  /\ threads[t].pc = "idle"
  /\ \E b \in Bodies :
       LET th == [threads[t] EXCEPT !.body = b.kind, !.text = b.text] IN
       threads' = [threads EXCEPT ![t] =
         IF b.kind = "not_json"
           THEN [th EXCEPT !.pc = "done", !.status = "500"]
         ELSE IF b.kind = "empty" \/ handle_message_route(b) = "done"
           THEN Answered(th)
         ELSE [th EXCEPT !.pc = "gc_check", !.call = FirstCall(handle_message_route(b))]]
  /\ UNCHANGED <<config, single, telegram_client>>

\* get_telegram_client: `if telegram_client is None`.
get_telegram_client_check(t) ==
  /\ threads[t].pc = "gc_check"
  /\ threads' = [threads EXCEPT ![t] =
       [@ EXCEPT !.pc = IF telegram_client = NoClient THEN "gc_assign" ELSE "gc_return",
                 !.access = @ \cup {"read"}]]
  /\ UNCHANGED <<config, single, telegram_client>>

\* get_telegram_client: `telegram_client = httpx.AsyncClient(...)`; the
\* client is named after the thread that created it.
get_telegram_client_assign(t) ==
  /\ threads[t].pc = "gc_assign"
  /\ telegram_client' = t
  /\ threads' = [threads EXCEPT ![t] =
       [@ EXCEPT !.pc = "gc_return", !.access = @ \cup {"write"}]]
  /\ UNCHANGED <<config, single>>

\* get_telegram_client: `return telegram_client`.
get_telegram_client_return(t) ==
  /\ threads[t].pc = "gc_return"
  /\ threads' = [threads EXCEPT ![t] =
       [@ EXCEPT !.pc = "post", !.client = telegram_client, !.access = @ \cup {"read"}]]
  /\ UNCHANGED <<config, single, telegram_client>>

\* client.post of send_telegram_message / edit_telegram_message and what
\* handle_message does with the result.
telegram_post(t) ==
  /\ threads[t].pc = "post"
  /\ \E ok \in BOOLEAN :
       LET th == [threads[t] EXCEPT
                    !.sent = Append(@, [kind |-> threads[t].call, ok |-> ok,
                                        client |-> threads[t].client]),
                    !.failed = IF ok THEN @ ELSE @ \cup {"telegram"}] IN
       threads' = [threads EXCEPT ![t] =
         IF th.call = "ack" /\ ok THEN [th EXCEPT !.pc = "chatgpt"] ELSE Answered(th)]
  /\ UNCHANGED <<config, single, telegram_client>>

\* await process_with_chatgpt(text)
thread_chatgpt(t) ==
  /\ threads[t].pc = "chatgpt"
  /\ \E resp \in CompletionResponses :
       LET r == webhook_process_with_chatgpt(threads[t].text, resp)
           th == [threads[t] EXCEPT
                    !.failed = IF resp.kind = "content" THEN @ ELSE @ \cup {"openai"}] IN
       threads' = [threads EXCEPT ![t] =
         IF r.raised THEN Answered(th)
         ELSE IF Truthy(google_script_url) THEN [th EXCEPT !.pc = "save_wait"]
         ELSE [th EXCEPT !.pc = "gc_check", !.call = "result"]]
  /\ UNCHANGED <<config, single, telegram_client>>

\* The answer of the spreadsheet POST of save_to_google_sheet.
thread_save(t) ==
  /\ threads[t].pc = "save_wait"
  /\ \E r \in PostAnswers \cup {"timeout"} :
       threads' = [threads EXCEPT ![t] =
         [@ EXCEPT !.pc = "gc_check", !.call = "result",
                   !.failed = IF r = "200" THEN @ ELSE @ \cup {"sheet"}]]
  /\ UNCHANGED <<config, single, telegram_client>>

NextWebhook ==
  \E t \in Threads :
    \/ webhook(t)
    \/ get_telegram_client_check(t)
    \/ get_telegram_client_assign(t)
    \/ get_telegram_client_return(t)
    \/ telegram_post(t)
    \/ thread_chatgpt(t)
    \/ thread_save(t)

SpecWebhook == Init /\ [][NextWebhook]_vars

\* C13: concurrent handlings of two messages read and write no
\* process-wide variable in common: no handling touches a variable another
\* one wrote, and each uses only what it created itself.
C13_NoSharedMutableState ==
  /\ \A t \in Threads : \A u \in Threads \ {t} :
       ~("write" \in threads[t].access /\ threads[u].access # {})
  /\ \A t \in Threads : \A i \in DOMAIN threads[t].sent : threads[t].sent[i].client = t

\* C14: webhook() answers 200 to every POST whose body parses as JSON,
\* whatever fails while the update is handled: Update.de_json, the Telegram
\* calls, the completion call, the spreadsheet call.
C14_WebhookAnswers200 ==
  \A t \in Threads :
    /\ threads[t].pc = "done" /\ threads[t].body # "not_json" => threads[t].status = "200"
    /\ threads[t].status = "500" => threads[t].body = "not_json"

C14_Witness ==
  /\ threads["t1"].pc = "done"
  /\ threads["t1"].status = "200"
  /\ threads["t1"].failed = {"telegram", "openai", "sheet"}
  /\ threads["t2"].pc = "done"
  /\ threads["t2"].body = "malformed"
  /\ threads["t2"].status = "200"

====
